---- MODULE Spec2Model ----
(***************************************************************************)
(* Model of pytest-profiling (src/pytest-profiling/pytest_profiling.py):   *)
(* the Profiling plugin object, its four hooks, and clean_filename.        *)
(*                                                                         *)
(* Text is modelled as a sequence of code points (ord(c)); a path is the   *)
(* code points of os.path.join's result.  A profile (pstats table) is a    *)
(* function from the profiled functions to their cumulative time in ticks. *)
(***************************************************************************)
EXTENDS Naturals, Sequences, FiniteSets, TLC

\* ---------------------------------------------------------------- bounds
MaxTests == 2      \* test invocations per session
MaxCt    == 1      \* largest cumulative time of one function in one test
MaxLen   == 2      \* longest identifier given to clean_filename in SpecClean

\* ------------------------------------------------------- program constants
LARGE_FILENAME_HASH_LEN == 8

NONE == <<>>       \* Python's None for the optional path fields

\* ------------------------------------------------------------ text helpers
UNDERSCORE == <<95>>                               \* "_"
PROF_DIR   == <<112, 114, 111, 102>>               \* "prof"
SEP        == <<47>>                               \* "/"
DOT_PROF   == <<46, 112, 114, 111, 102>>           \* ".prof"
COMBINED_PROF == <<99, 111, 109, 98, 105, 110, 101, 100, 46, 112, 114, 111, 102>>
COMBINED_SVG  == <<99, 111, 109, 98, 105, 110, 101, 100, 46, 115, 118, 103>>

\* os.path.join("prof", name)
path_join(dir, name) == dir \o SEP \o name

\* set('/?<>\:*|"') : the escape \: is not a Python escape, so the set holds
\* both the backslash (92) and the colon (58).
forbidden_chars == {47, 63, 60, 62, 92, 58, 42, 124, 34}

clean_char_le(c) == IF c \notin forbidden_chars /\ c <= 127 THEN c ELSE UNDERSCORE[1]

clean_char(c) == IF c \notin forbidden_chars /\ c < 127 THEN c ELSE UNDERSCORE[1]

clean_filename(s) == [i \in 1..Len(s) |-> clean_char(s[i])]

\* ------------------------------------------------ inputs of the session model
\* Test identifiers (pyfuncitem.name) used by the session model:
\*   "test_ab"  (7 chars), "test/ab" (7 chars, same sanitized name),
\*   "test_abc" (8 chars = LARGE_FILENAME_HASH_LEN).
TestNames == { <<116, 101, 115, 116, 95, 97, 98>>,
               <<116, 101, 115, 116, 47, 97, 98>>,
               <<116, 101, 115, 116, 95, 97, 98, 99>> }

\* md5(name).hexdigest()[:LARGE_FILENAME_HASH_LEN] for the identifiers above
\* (the digests' first 8 hex characters: b93e292f, c54262e1, a4c2e328).
md5_hexdigest_prefix(name) ==
    CASE name = <<116, 101, 115, 116, 95, 97, 98>>     -> <<98, 57, 51, 101, 50, 57, 50, 102>>
      [] name = <<116, 101, 115, 116, 47, 97, 98>>     -> <<99, 53, 52, 50, 54, 50, 101, 49>>
      [] name = <<116, 101, 115, 116, 95, 97, 98, 99>> -> <<97, 52, 99, 50, 101, 51, 50, 56>>

Funcs == {"f", "g"}
Profiles == [Funcs -> 0..MaxCt]
ZeroStats == [f \in Funcs |-> 0]

VARIABLES
    svg, svg_name, profs, combined,   \* fields of the Profiling object
    phase,                            \* the host runner's position in the session
    profDir,                          \* what "prof" is in the working directory
    files,                            \* .prof files on disk: path -> profile
    svgOnDisk,                        \* prof/combined.svg exists
    startCall, lastCall, finishCall,  \* what the last run of each hook did
    output,                           \* lines written to the terminal reporter
    nTests,                           \* test invocations so far
    recorded,                         \* profiles measured for the appended paths, in order
    dumps,                            \* paths written by per-test dump_stats, in order
    cin, cout, cpc                    \* clean_filename applied to an arbitrary identifier

vars == << svg, svg_name, profs, combined, phase, profDir, files, svgOnDisk,
           startCall, lastCall, finishCall, output, nTests, recorded, dumps,
           cin, cout, cpc >>

sessionVars == << svg, svg_name, profs, combined, phase, profDir, files, svgOnDisk,
                  startCall, lastCall, finishCall, output, nTests, recorded, dumps >>
cleanVars == << cin, cout, cpc >>

\* ------------------------------------------------------------ environment
\* What the OS can answer to open(path, 'wb') inside dump_stats.  With "prof"
\* a directory the write succeeds or fails with the name too long (NAME_MAX,
\* PATH_MAX) or with another error; without it no write can succeed.
WriteOutcomes(dir) ==
    IF dir = "dir" THEN {"ok", "ENAMETOOLONG", "EACCES"}
    ELSE IF dir = "file" THEN {"ENOTDIR", "ENAMETOOLONG"}
    ELSE {"ENOENT", "ENAMETOOLONG"}

\* What os.makedirs("prof") can answer.
MakedirsOutcomes(dir) ==
    IF dir = "absent" THEN {"ok", "EACCES"} ELSE {"EEXIST"}

\* What os.system answers for the gprof2dot | dot pipeline (pipes.Template.copy
\* returns this status; it raises nothing).
PipelineOutcomes == {"ok", "missing_tool", "nonzero_exit"}

\* What the OS can answer to combined.dump_stats: success or some OSError (the
\* hook has no handler there, so the errno makes no difference).
FinishWriteOutcomes(dir) == IF dir = "dir" THEN {"ok", "EACCES"} ELSE {"ENOENT"}

WriteFile(fs, path, stats) ==
    [p \in (DOMAIN fs) \cup {path} |-> IF p = path THEN stats ELSE fs[p]]

\* ------------------------------------------------------- pytest_sessionstart
\* try: os.makedirs("prof") / except OSError: pass
sessionstart_raises_strict(err) == err \notin {"ok", "EEXIST"}

sessionstart_raises(err) == FALSE

pytest_sessionstart ==
    /\ phase = "created"
    /\ \E err \in MakedirsOutcomes(profDir) :
         /\ profDir' = IF err = "ok" THEN "dir" ELSE profDir
         /\ startCall' = [ran |-> TRUE, err |-> err, was |-> profDir,
                          raised |-> sessionstart_raises(err)]
    /\ phase' = "started"
    /\ UNCHANGED << svg, svg_name, profs, combined, files, svgOnDisk, lastCall,
                    finishCall, output, nTests, recorded, dumps >>
    /\ UNCHANGED cleanVars

\* -------------------------------------------------------- pytest_pyfunc_call
\* prof.runctx("fn()", ...): an exception of the test body leaves runctx (its
\* try/finally only disables the profiler) and so leaves the hook.
runctx_raises_swallow(body) == FALSE

runctx_raises(body) == body = "fail"

\* os.path.join("prof", clean_filename(pyfuncitem.name) + ".prof")
first_filename(name) == path_join(PROF_DIR, clean_filename(name) \o DOT_PROF)

hash_filename_sanitized(name) == path_join(PROF_DIR, clean_filename(name) \o DOT_PROF)

\* hash_str = md5(name).hexdigest()[:8]; os.path.join("prof", hash_str + ".prof")
hash_filename(name) == path_join(PROF_DIR, md5_hexdigest_prefix(name) \o DOT_PROF)

fallback_allowed_any_errno(err, name) == Len(name) >= LARGE_FILENAME_HASH_LEN

\* the two re-raises of the except clause, negated
fallback_allowed(err, name) ==
    /\ err = "ENAMETOOLONG"
    /\ ~ (Len(name) < LARGE_FILENAME_HASH_LEN)

dump_profile_append_always(name, w1, w2) ==
    [raised |-> IF w1 = "ok" THEN "none" ELSE w1,
     attempts |-> << first_filename(name) >>,
     written |-> IF w1 = "ok" THEN << first_filename(name) >> ELSE << >>,
     appended |-> << first_filename(name) >>]

\* Lines 69-82: the first write, the fallback write, and the append.
\* w1, w2 are the OS's answers to the first and to the second open().
dump_profile(name, w1, w2) ==
    LET first == first_filename(name) IN
    IF w1 = "ok"
    THEN [raised |-> "none", attempts |-> << first >>,
          written |-> << first >>, appended |-> << first >>]
    ELSE IF ~ fallback_allowed(w1, name)
    THEN [raised |-> w1, attempts |-> << first >>,
          written |-> << >>, appended |-> << >>]
    ELSE LET hashed == hash_filename(name) IN
         IF w2 = "ok"
         THEN [raised |-> "none", attempts |-> << first, hashed >>,
               written |-> << hashed >>, appended |-> << hashed >>]
         ELSE [raised |-> w2, attempts |-> << first, hashed >>,
               written |-> << >>, appended |-> << >>]

pytest_pyfunc_call ==
    /\ phase = "started"
    /\ nTests < MaxTests
    /\ \E name \in TestNames, body \in {"pass", "fail"} :
         IF runctx_raises(body)
         THEN /\ lastCall' = [name |-> name, body |-> body, stats |-> ZeroStats,
                              w1 |-> "none", w2 |-> "none", raised |-> "body",
                              attempts |-> << >>, written |-> << >>,
                              appended |-> << >>, before |-> profs]
              /\ UNCHANGED << profs, files, recorded, dumps >>
         ELSE \E stats \in Profiles, w1 \in WriteOutcomes(profDir) :
              \E w2 \in (IF w1 # "ok" /\ fallback_allowed(w1, name)
                         THEN WriteOutcomes(profDir) ELSE {"none"}) :
              LET r == dump_profile(name, w1, w2) IN
              /\ lastCall' = [name |-> name, body |-> body,
                              stats |-> IF r.written = << >> THEN ZeroStats ELSE stats,
                              w1 |-> w1, w2 |-> w2,
                              raised |-> r.raised, attempts |-> r.attempts,
                              written |-> r.written, appended |-> r.appended,
                              before |-> profs]
              /\ files' = IF r.written = << >> THEN files
                          ELSE WriteFile(files, r.written[1], stats)
              /\ dumps' = dumps \o r.written
              /\ profs' = profs \o r.appended
              /\ recorded' = IF r.appended = << >> THEN recorded
                             ELSE Append(recorded, stats)
    /\ nTests' = nTests + 1
    /\ UNCHANGED << svg, svg_name, combined, phase, profDir, svgOnDisk,
                    startCall, finishCall, output >>
    /\ UNCHANGED cleanVars

\* ------------------------------------------------------ pytest_sessionfinish
\* pstats.Stats.add: the cumulative time of every function is summed.
stats_add(a, b) == [f \in Funcs |-> a[f] + b[f]]

RECURSIVE stats_add_all(_, _, _)
stats_add_all(acc, paths, fs) ==
    IF paths = << >> THEN acc
    ELSE stats_add_all(stats_add(acc, fs[paths[1]]), Tail(paths), fs)

\* combined = pstats.Stats(self.profs[0]); for prof in self.profs[1:]: combined.add(prof)
\* Each path is loaded from the disk as it is when the session finishes.
combined_stats(paths, fs) == stats_add_all(fs[paths[1]], Tail(paths), fs)

pytest_sessionfinish ==
    /\ phase = "started"
    /\ phase' = "finished"
    /\ IF profs # << >>
       THEN \E cw \in FinishWriteOutcomes(profDir), pipe \in PipelineOutcomes :
              /\ combined' = path_join(PROF_DIR, COMBINED_PROF)
              /\ IF cw # "ok"
                 THEN /\ finishCall' = [ran |-> TRUE, merged |-> TRUE, raised |-> cw,
                                        pipeline |-> "none"]
                      /\ UNCHANGED << files, svg_name, svgOnDisk >>
                 ELSE /\ files' = WriteFile(files, combined', combined_stats(profs, files))
                      /\ IF svg
                         THEN /\ svg_name' = path_join(PROF_DIR, COMBINED_SVG)
                              /\ svgOnDisk' = (svgOnDisk \/ pipe = "ok")
                              /\ finishCall' = [ran |-> TRUE, merged |-> TRUE,
                                                raised |-> "none", pipeline |-> pipe]
                         ELSE /\ finishCall' = [ran |-> TRUE, merged |-> TRUE,
                                                raised |-> "none", pipeline |-> "none"]
                              /\ UNCHANGED << svg_name, svgOnDisk >>
       ELSE /\ finishCall' = [ran |-> TRUE, merged |-> FALSE, raised |-> "none",
                              pipeline |-> "none"]
            /\ UNCHANGED << combined, files, svg_name, svgOnDisk >>
    /\ UNCHANGED << svg, profs, profDir, startCall, lastCall, output, nTests,
                    recorded, dumps >>
    /\ UNCHANGED cleanVars

\* --------------------------------------------------- pytest_terminal_summary
summary_lines_always_header(c, s) ==
    << [kind |-> "header", path |-> c], [kind |-> "stats", path |-> c] >>
    \o (IF s # NONE THEN << [kind |-> "svg", path |-> s] >> ELSE << >>)

summary_lines(c, s) ==
    (IF c # NONE
     THEN << [kind |-> "header", path |-> c], [kind |-> "stats", path |-> c] >>
     ELSE << >>)
    \o (IF s # NONE THEN << [kind |-> "svg", path |-> s] >> ELSE << >>)

\* The runner prints its summary after a session finish that returned.
pytest_terminal_summary ==
    /\ phase = "finished"
    /\ finishCall.raised = "none"
    /\ phase' = "summarized"
    /\ output' = output \o summary_lines(combined, svg_name)
    /\ UNCHANGED << svg, svg_name, profs, combined, profDir, files, svgOnDisk,
                    startCall, lastCall, finishCall, nTests, recorded, dumps >>
    /\ UNCHANGED cleanVars

\* ------------------------------------------------------------ specification
NoCall == [name |-> << >>, body |-> "none", stats |-> ZeroStats,
           w1 |-> "none", w2 |-> "none", raised |-> "none",
           attempts |-> << >>, written |-> << >>, appended |-> << >>,
           before |-> << >>]

\* Profiling.__init__(svg): self.svg = svg; self.profs = []; the class
\* attributes svg_name and combined stay None.
InitObject ==
    /\ svg_name = NONE
    /\ profs = << >>
    /\ combined = NONE
    /\ phase = "created"
    /\ files = << >>
    /\ svgOnDisk = FALSE
    /\ startCall = [ran |-> FALSE, err |-> "none", was |-> "none", raised |-> FALSE]
    /\ lastCall = NoCall
    /\ finishCall = [ran |-> FALSE, merged |-> FALSE, raised |-> "none",
                     pipeline |-> "none"]
    /\ output = << >>
    /\ nTests = 0
    /\ recorded = << >>
    /\ dumps = << >>

Init ==
    /\ svg \in BOOLEAN
    /\ profDir \in {"absent", "dir", "file"}
    /\ InitObject
    /\ cin = << >> /\ cout = << >> /\ cpc = "idle"

Next ==
    \/ pytest_sessionstart
    \/ pytest_pyfunc_call
    \/ pytest_sessionfinish
    \/ pytest_terminal_summary

Spec == Init /\ [][Next]_vars

\* ----------------------------------------- clean_filename on its own inputs
\* Code points given to clean_filename: the nine forbidden characters, control
\* characters (tab, unit separator, DEL), printable ASCII (space, "_", "a",
\* "~") and non-ASCII (U+0080, e-acute).
CleanAlphabet == forbidden_chars \cup {9, 31, 32, 95, 97, 126, 127, 128, 233}

BoundedSeq(S, n) == UNION { [1..k -> S] : k \in 0..n }

apply_clean ==
    /\ cpc = "input"
    /\ cout' = clean_filename(cin)
    /\ cpc' = "done"
    /\ UNCHANGED cin
    /\ UNCHANGED sessionVars

InitClean ==
    /\ svg = FALSE
    /\ profDir = "absent"
    /\ InitObject
    /\ cin \in BoundedSeq(CleanAlphabet, MaxLen)
    /\ cout = << >>
    /\ cpc = "input"

NextClean == apply_clean

SpecClean == InitClean /\ [][NextClean]_vars

\* ===================================================================== claims
Called == lastCall.body # "none"
Finished == phase \in {"finished", "summarized"}
HasLine(kind) == \E i \in DOMAIN output : output[i].kind = kind

\* "prof/a4c2e328.prof": the artifact of "test_abc" under the MD5 fallback
HashedPathOfTestAbc ==
    << 112, 114, 111, 102, 47, 97, 52, 99, 50, 101, 51, 50, 56, 46, 112, 114, 111, 102 >>
\* "prof/test_abc.prof"
SanitizedPathOfTestAbc ==
    << 112, 114, 111, 102, 47, 116, 101, 115, 116, 95, 97, 98, 99, 46, 112, 114, 111, 102 >>
\* "prof/combined.prof"
CombinedPath ==
    << 112, 114, 111, 102, 47, 99, 111, 109, 98, 105, 110, 101, 100, 46, 112, 114, 111, 102 >>

\* C1 (as claimed): the outcome the runner observes from pytest_pyfunc_call is
\* the outcome of the test body: a failing body's exception propagates, and a
\* passing body is never turned into an error by profiling or by the write of
\* the stats file.
C1_OutcomeIsBodyOutcome ==
    Called =>
        /\ (lastCall.body = "fail" => lastCall.raised = "body")
        /\ (lastCall.body = "pass" => lastCall.raised = "none")

\* C1 (amended): a failing body's exception propagates unchanged and nothing is
\* written or recorded; a passing body makes the hook return normally exactly
\* when one write of the stats file succeeded, and otherwise the hook raises
\* the OS error of the write that failed (the passing test is reported failed).
C1_OutcomeIsBodyOutcomeUnlessWriteFails ==
    Called =>
        /\ (lastCall.body = "fail" =>
              /\ lastCall.raised = "body"
              /\ lastCall.attempts = << >>
              /\ profs = lastCall.before)
        /\ (lastCall.body = "pass" =>
              /\ lastCall.raised # "body"
              /\ (lastCall.raised = "none" <=> "ok" \in {lastCall.w1, lastCall.w2})
              /\ (lastCall.raised # "none" =>
                    lastCall.raised = (IF lastCall.w2 = "none" THEN lastCall.w1
                                       ELSE lastCall.w2)))

C1_Witness ==
    /\ lastCall.body = "fail"
    /\ lastCall.raised = "body"
    /\ Len(profs) = 1

\* C2 (as claimed): after a session every executed test, passing or failing, has
\* its own stats artifact, and no artifact is written a second time by a later
\* invocation.
C2_OneArtifactPerTestWrittenOnce ==
    Finished =>
        /\ \A i, j \in DOMAIN dumps : i # j => dumps[i] # dumps[j]
        /\ Len(dumps) = nTests
        /\ \A i \in DOMAIN profs : files[profs[i]] = recorded[i]

\* The part of C2 about overwriting alone.
C2_NoArtifactOverwritten ==
    \A i, j \in DOMAIN dumps : i # j => dumps[i] # dumps[j]

C4_TooLongFallsBackToHashOnce ==
    (/\ lastCall.body = "pass"
     /\ lastCall.w1 = "ENAMETOOLONG"
     /\ Len(lastCall.name) >= 8) =>
        /\ Len(lastCall.attempts) = 2
        /\ Len(lastCall.attempts[2]) = Len(HashedPathOfTestAbc)
        /\ (lastCall.name = << 116, 101, 115, 116, 95, 97, 98, 99 >> =>
              lastCall.attempts = << SanitizedPathOfTestAbc, HashedPathOfTestAbc >>)
        /\ (lastCall.w2 = "ok" =>
              /\ lastCall.raised = "none"
              /\ profs = Append(lastCall.before, lastCall.attempts[2])
              /\ lastCall.attempts[2] \in DOMAIN files
              /\ files[lastCall.attempts[2]] = lastCall.stats
              /\ dumps[Len(dumps)] = lastCall.attempts[2])
        /\ (lastCall.w2 # "ok" =>
              /\ lastCall.raised = lastCall.w2
              /\ lastCall.written = << >>
              /\ profs = lastCall.before)

C4_Witness ==
    /\ lastCall.w1 = "ENAMETOOLONG"
    /\ lastCall.w2 = "ok"
    /\ Len(lastCall.name) >= 8
    /\ Len(profs) = 2
    /\ profs[1] = SanitizedPathOfTestAbc
    /\ profs[2] = HashedPathOfTestAbc

\* C5: a write failure that is not ENAMETOOLONG, or an ENAMETOOLONG failure on
\* an identifier shorter than 8 characters, propagates with no second write
\* attempted and leaves the artifact-path sequence as it was.
C5_OtherWriteFailurePropagates ==
    (/\ lastCall.body = "pass"
     /\ lastCall.w1 \notin {"ok", "none"}
     /\ (lastCall.w1 # "ENAMETOOLONG" \/ Len(lastCall.name) < 8)) =>
        /\ lastCall.raised = lastCall.w1
        /\ Len(lastCall.attempts) = 1
        /\ lastCall.written = << >>
        /\ profs = lastCall.before

C5_Witness ==
    /\ lastCall.body = "pass"
    /\ lastCall.w1 = "ENAMETOOLONG"
    /\ Len(lastCall.name) = 7
    /\ lastCall.raised = "ENAMETOOLONG"
    /\ Len(profs) = 1

\* C6 (as claimed): pytest_sessionstart tolerates only "prof already exists as
\* a directory"; every other failure of the directory creation propagates.
C6_OnlyExistingDirectoryTolerated ==
    startCall.ran =>
        (startCall.raised <=>
            ~ (\/ startCall.err = "ok"
               \/ (startCall.err = "EEXIST" /\ startCall.was = "dir")))

\* C7 (as claimed): a failure of the rendering pipeline propagates out of
\* pytest_sessionfinish, so the summary names prof/combined.svg only in a
\* session that produced it.
C7_RenderingFailurePropagates ==
    /\ (finishCall.pipeline \in {"missing_tool", "nonzero_exit"} =>
          finishCall.raised # "none")
    /\ (HasLine("svg") => svgOnDisk)

\* C8 (as claimed): the combined artifact holds, for every function, the sum of
\* the cumulative times of the profiles recorded for the tests whose artifacts
\* are in the sequence, whatever the order of the sequence.
RECURSIVE SumOfProfiles(_)
SumOfProfiles(ps) ==
    IF ps = << >> THEN ZeroStats
    ELSE [f \in Funcs |-> ps[1][f] + SumOfProfiles(Tail(ps))[f]]

C8_CombinedIsSumOfRecordedProfiles ==
    (Finished /\ finishCall.merged /\ finishCall.raised = "none") =>
        /\ files[CombinedPath] = SumOfProfiles(recorded)
        /\ \A perm \in Permutations(DOMAIN profs) :
             combined_stats([i \in DOMAIN profs |-> profs[perm[i]]], files)
                = SumOfProfiles(recorded)

\* C9: every path of the artifact-path sequence names a file on disk (so also
\* when pytest_sessionfinish starts), and the sequence only grows, at its end,
\* and only in a step of pytest_pyfunc_call.
C9_PathsOnDisk == \A i \in DOMAIN profs : profs[i] \in DOMAIN files

C9_AppendOnly ==
    /\ Len(profs') >= Len(profs)
    /\ SubSeq(profs', 1, Len(profs)) = profs
    /\ (profs' # profs => nTests' = nTests + 1 /\ Len(profs') = Len(profs) + 1)

C9_RecordedPathsExist == [] C9_PathsOnDisk /\ [][C9_AppendOnly]_vars

C9_Witness ==
    /\ phase = "finished"
    /\ Len(profs) = 1
    /\ profs[1] \in DOMAIN files
    /\ lastCall.raised \notin {"none", "body"}

\* C10: with an empty artifact-path sequence at session finish no combined.prof
\* and no combined.svg is written, neither path is recorded and the summary
\* writes nothing; the summary writes the header only if a combined path is
\* recorded and the SVG line only if an image path is recorded.
C10_NothingWithoutArtifacts ==
    /\ (finishCall.ran /\ profs = << >>) =>
          /\ combined = NONE
          /\ svg_name = NONE
          /\ CombinedPath \notin DOMAIN files
          /\ ~ svgOnDisk
          /\ (phase = "summarized" => output = << >>)
    /\ phase = "summarized" =>
          /\ (HasLine("header") => combined = CombinedPath)
          /\ (HasLine("svg") => svg_name # NONE)

C10_Witness ==
    /\ phase = "summarized"
    /\ svg
    /\ profs = << >>
    /\ nTests > 0
    /\ output = << >>

====
